---- MODULE Spec2Model ----
(***************************************************************************)
(* A model of wjiec/go-fang (src/fang.go): binding the fields of a record  *)
(* to the flags of a cobra command.                                        *)
(*                                                                         *)
(* Go strings are sequences of byte values (0..255), so that the byte- and *)
(* rune-level operations of the code (s[0], range, strings.SplitN,         *)
(* strconv) are computed as the code computes them.  B("abc") writes such  *)
(* a string from a literal.  Integers parsed from tokens are kept as       *)
(* canonical decimal numerals (sign and digits), compared digit by digit,  *)
(* so that the 64-bit ranges of strconv and reflect are exact.             *)
(***************************************************************************)
EXTENDS Integers, Sequences, FiniteSets, TLC

VARIABLES
  cmd,      \* the *cobra.Command: [nil, local, persistent] (its two flag sets)
  target,   \* the value v handed to Bind: [shape, type]
  heap,     \* storage: heap[1] is the pointee of v, later cells are pointees of fields
  ret,      \* the outcome of the last call: [out, err]
  pc,       \* "start" before the call, "bound" after Bind, "done" after a function
  nargs,    \* number of arguments parsed so far
  last,     \* the last operation: [op, name, tok, pre] (pre: the heap before it)
  wordBits, \* the width of int and uint on the platform of the build
  pin,      \* the arguments of a function called on its own: [fn, t, s] or [fn, f]
  pout      \* what it returned: [fn, r]

vars == <<cmd, target, heap, ret, pc, nargs, last, wordBits, pin, pout>>

----------------------------------------------------------------------------
(* Strings as byte sequences *)

DigitChars == "0123456789"
UpperChars == "ABCDEFGHIJKLMNOPQRSTUVWXYZ"
LowerChars == "abcdefghijklmnopqrstuvwxyz"

IndexIn(c, str) == CHOOSE i \in 1..Len(str) : SubSeq(str, i, i) = c
InStr(c, str) == \E i \in 1..Len(str) : SubSeq(str, i, i) = c

\* the ASCII code of a one-character literal
Code(c) ==
  CASE InStr(c, DigitChars) -> 47 + IndexIn(c, DigitChars)
    [] InStr(c, UpperChars) -> 64 + IndexIn(c, UpperChars)
    [] InStr(c, LowerChars) -> 96 + IndexIn(c, LowerChars)
    [] c = " " -> 32
    [] c = "+" -> 43
    [] c = "," -> 44
    [] c = "-" -> 45
    [] c = "." -> 46
    [] c = "=" -> 61
    [] c = "_" -> 95

B(str) == [i \in 1..Len(str) |-> Code(SubSeq(str, i, i))]

\* s[from:] of Go (from is 0-based)
SliceFrom(s, from) == SubSeq(s, from + 1, Len(s))

----------------------------------------------------------------------------
(* package unicode and unicode/utf8, for runes below U+0100 and U+FFFD *)

RuneError == 65533

\* unicode.IsUpper: ASCII A-Z, and Latin-1 U+00C0..U+00DE except U+00D7
IsUpper(r) ==
  \/ (r >= 65 /\ r <= 90)
  \/ (r >= 192 /\ r <= 222 /\ r # 215)

\* unicode.ToLower
ToLower(r) == IF IsUpper(r) THEN r + 32 ELSE r

\* utf8.EncodeRune, as bytes.Buffer.WriteRune writes it
EncodeRune(r) ==
  IF r < 128 THEN <<r>>
  ELSE IF r < 2048 THEN <<192 + (r \div 64), 128 + (r % 64)>>
  ELSE <<224 + (r \div 4096), 128 + ((r \div 64) % 64), 128 + (r % 64)>>

IsCont(b) == b >= 128 /\ b <= 191

\* utf8.DecodeRune at the head of s (non-empty), as `range` over a string
\* decodes it: [r, w], an invalid byte decoding to RuneError of width 1
DecodeRune(s) ==
  LET b == s[1] IN
  IF b < 128 THEN [r |-> b, w |-> 1]
  ELSE IF b >= 194 /\ b <= 223 /\ Len(s) >= 2 /\ IsCont(s[2])
    THEN [r |-> (b - 192) * 64 + (s[2] - 128), w |-> 2]
  ELSE IF b >= 224 /\ b <= 239 /\ Len(s) >= 3 /\ IsCont(s[2]) /\ IsCont(s[3])
          /\ (b # 224 \/ s[2] >= 160) /\ (b # 237 \/ s[2] <= 159)
    THEN [r |-> (b - 224) * 4096 + (s[2] - 128) * 64 + (s[3] - 128), w |-> 3]
  ELSE [r |-> RuneError, w |-> 1]

----------------------------------------------------------------------------
(* toSnakeCase, structField.Name *)

RECURSIVE SnakeRest(_)
\* the loop `for _, r := range s[1:]` of toSnakeCase
SnakeRest(s) ==
  IF s = <<>> THEN <<>>
  ELSE LET d == DecodeRune(s) IN
       (IF IsUpper(d.r) THEN <<45>> ELSE <<>>)
         \o EncodeRune(ToLower(d.r)) \o SnakeRest(SliceFrom(s, d.w))

\* toSnakeCase(s), s non-empty: rune(s[0]) is the first BYTE of s
toSnakeCase(s) == EncodeRune(ToLower(s[1])) \o SnakeRest(SliceFrom(s, 1))

----------------------------------------------------------------------------
(* reflect.Type: the types of targets and fields *)

Base(n) == [con |-> "base", name |-> n]
PtrTo(t) == [con |-> "ptr", elem |-> t]
SliceOf(t) == [con |-> "slice", elem |-> t]
ArrayOf(t) == [con |-> "array", elem |-> t]
MapOf(k, e) == [con |-> "map", key |-> k, elem |-> e]
StructOf(fs) == [con |-> "struct", fields |-> fs]
NoType == [con |-> "none"]

\* reflect.Kind of the named and predeclared types; "MyInt" and "MyString" are
\* types a caller defined (type MyInt int, type MyString string)
BaseKind(n) ==
  CASE n = "bool" -> "Bool"
    [] n = "int" -> "Int"
    [] n = "int8" -> "Int8"
    [] n = "int16" -> "Int16"
    [] n = "int32" -> "Int32"
    [] n = "int64" -> "Int64"
    [] n = "uint" -> "Uint"
    [] n = "uint8" -> "Uint8"
    [] n = "uint16" -> "Uint16"
    [] n = "uint32" -> "Uint32"
    [] n = "uint64" -> "Uint64"
    [] n = "uintptr" -> "Uintptr"
    [] n = "float32" -> "Float32"
    [] n = "float64" -> "Float64"
    [] n = "complex128" -> "Complex128"
    [] n = "string" -> "String"
    [] n = "chan int" -> "Chan"
    [] n = "func()" -> "Func"
    [] n = "interface {}" -> "Interface"
    [] n = "unsafe.Pointer" -> "UnsafePointer"
    [] n = "net.IP" -> "Slice"
    [] n = "net.IPMask" -> "Slice"
    [] n = "net.IPNet" -> "Struct"
    [] n = "time.Duration" -> "Int64"
    [] n = "fang.Count" -> "Int"
    [] n = "fang.BytesHex" -> "Slice"
    [] n = "MyInt" -> "Int"
    [] n = "MyString" -> "String"

Kind(t) ==
  CASE t.con = "base" -> BaseKind(t.name)
    [] t.con = "ptr" -> "Ptr"
    [] t.con = "slice" -> "Slice"
    [] t.con = "array" -> "Array"
    [] t.con = "map" -> "Map"
    [] t.con = "struct" -> "Struct"
    [] t.con = "none" -> "Invalid"

_IPType == Base("net.IP")
_CountType == Base("fang.Count")
_IPNetType == Base("net.IPNet")
_IPMaskType == Base("net.IPMask")
_BytesHexType == Base("fang.BytesHex")
_DurationType == Base("time.Duration")

\* the predeclared type a value of newPrimitiveValue has, by the kind asked for
BuiltinOfKind(k) ==
  CASE k = "Bool" -> "bool"
    [] k = "Int" -> "int"
    [] k = "Int8" -> "int8"
    [] k = "Int16" -> "int16"
    [] k = "Int32" -> "int32"
    [] k = "Int64" -> "int64"
    [] k = "Uint" -> "uint"
    [] k = "Uint8" -> "uint8"
    [] k = "Uint16" -> "uint16"
    [] k = "Uint32" -> "uint32"
    [] k = "Uint64" -> "uint64"
    [] k = "Float32" -> "float32"
    [] k = "Float64" -> "float64"
    [] OTHER -> "string"

SignedKinds == {"Int8", "Int16", "Int32", "Int64", "Int"}
UnsignedKinds == {"Uint8", "Uint16", "Uint32", "Uint64", "Uint"}
FloatKinds == {"Float32", "Float64"}

----------------------------------------------------------------------------
(* package strconv *)

IsDigit(b) == b >= 48 /\ b <= 57
AllDigits(s) == s # <<>> /\ \A i \in 1..Len(s) : IsDigit(s[i])

RECURSIVE StripZeros(_)
\* the canonical numeral of a digit string: no leading zero, "0" for zero
StripZeros(s) == IF Len(s) > 1 /\ s[1] = 48 THEN StripZeros(Tail(s)) ELSE s

\* a <= b for canonical numerals
NumLeq(a, b) ==
  \/ Len(a) < Len(b)
  \/ /\ Len(a) = Len(b)
     /\ LET d == {i \in 1..Len(a) : a[i] # b[i]} IN
        d = {} \/ LET i == CHOOSE j \in d : \A k \in d : j <= k IN a[i] < b[i]

MaxInt64 == B("9223372036854775807")
MinInt64Mag == B("9223372036854775808")
MaxUint64 == B("18446744073709551615")

NoErr == ""
ErrSyntax == "invalid syntax"
ErrRange == "value out of range"

\* strconv.ParseInt(s, 10, 64): [err, n], n = [neg, mag]
ParseInt(s) ==
  IF s = <<>> THEN [err |-> ErrSyntax]
  ELSE LET neg == s[1] = 45
           body == IF s[1] \in {43, 45} THEN Tail(s) ELSE s
       IN IF ~AllDigits(body) THEN [err |-> ErrSyntax]
          ELSE LET mag == StripZeros(body) IN
               IF (~neg /\ ~NumLeq(mag, MaxInt64)) \/ (neg /\ ~NumLeq(mag, MinInt64Mag))
                 THEN [err |-> ErrRange]
                 ELSE [err |-> NoErr, n |-> [neg |-> neg /\ mag # <<48>>, mag |-> mag]]

\* strconv.ParseUint(s, 10, 64): a sign is a syntax error
ParseUint(s) ==
  IF ~AllDigits(s) THEN [err |-> ErrSyntax]
  ELSE LET mag == StripZeros(s) IN
       IF ~NumLeq(mag, MaxUint64) THEN [err |-> ErrRange]
       ELSE [err |-> NoErr, n |-> [neg |-> FALSE, mag |-> mag]]

\* strconv.ParseBool
ParseBool(s) ==
  IF s \in {B("1"), B("t"), B("T"), B("TRUE"), B("true"), B("True")}
    THEN [err |-> NoErr, b |-> TRUE]
  ELSE IF s \in {B("0"), B("f"), B("F"), B("FALSE"), B("false"), B("False")}
    THEN [err |-> NoErr, b |-> FALSE]
  ELSE [err |-> ErrSyntax]

\* strconv.ParseFloat(s, 64) on decimal tokens: an optional sign, digits with at
\* most one point and at least one digit.  Exponents, hexadecimal floats,
\* underscores, "inf" and "nan" are not modelled: the tokens of the model hold
\* none of their letters.  The value is kept as its numeral [neg, int, frac].
ParseFloat(s) ==
  IF s = <<>> THEN [err |-> ErrSyntax]
  ELSE LET neg == s[1] = 45
           body == IF s[1] \in {43, 45} THEN Tail(s) ELSE s
           dots == {i \in 1..Len(body) : body[i] = 46}
           digs == {i \in 1..Len(body) : IsDigit(body[i])}
       IN IF digs = {} \/ Cardinality(dots) > 1 \/ digs \cup dots # 1..Len(body)
            THEN [err |-> ErrSyntax]
            ELSE LET p == IF dots = {} THEN Len(body) + 1 ELSE CHOOSE i \in dots : TRUE
                     ip == SubSeq(body, 1, p - 1)
                 IN [err |-> NoErr,
                     n |-> [neg |-> neg,
                            int |-> IF ip = <<>> THEN <<48>> ELSE StripZeros(ip),
                            frac |-> SubSeq(body, p + 1, Len(body))]]

----------------------------------------------------------------------------
(* newPrimitiveValue *)

\* t.Size() * 8 of an integer kind
BitSize(k) ==
  CASE k \in {"Int8", "Uint8"} -> 8
    [] k \in {"Int16", "Uint16"} -> 16
    [] k \in {"Int32", "Uint32"} -> 32
    [] k \in {"Int64", "Uint64"} -> 64
    [] k \in {"Int", "Uint"} -> wordBits

\* the largest magnitudes of a width: 2^(b-1) - 1, 2^(b-1) and 2^b - 1
MaxIntMag(b) ==
  CASE b = 8 -> B("127") [] b = 16 -> B("32767")
    [] b = 32 -> B("2147483647") [] b = 64 -> MaxInt64
MinIntMag(b) ==
  CASE b = 8 -> B("128") [] b = 16 -> B("32768")
    [] b = 32 -> B("2147483648") [] b = 64 -> MinInt64Mag
MaxUintMag(b) ==
  CASE b = 8 -> B("255") [] b = 16 -> B("65535")
    [] b = 32 -> B("4294967295") [] b = 64 -> MaxUint64

\* an overflow check against the 64 bits of the parse instead of the width of k
OverflowIntAlways64(k, n) == FALSE
\* reflect.Value.OverflowInt of a zero value of kind k: n does not survive
\* truncation to the width of k
OverflowInt(k, n) ==
  IF n.neg THEN ~NumLeq(n.mag, MinIntMag(BitSize(k)))
  ELSE ~NumLeq(n.mag, MaxIntMag(BitSize(k)))

\* reflect.Value.OverflowUint
OverflowUint(k, n) == ~NumLeq(n.mag, MaxUintMag(BitSize(k)))

\* the conversions int8(n) ... uint(n): the value itself when the width holds
\* it, and otherwise its low bits, which the model does not compute
Truncated == [neg |-> FALSE, mag |-> B("truncated")]
ConvInt(k, n) == IF OverflowInt(k, n) THEN Truncated ELSE n
ConvUint(k, n) == IF OverflowUint(k, n) THEN Truncated ELSE n

PrimOk(v) == [out |-> "ok", val |-> v, err |-> NoErr]
PrimErr(e) == [out |-> "error", err |-> e]
PrimPanic(e) == [out |-> "panic", err |-> e]

\* newPrimitiveValue(t, s): [out, val, err]; a value is [t, v], t the name of
\* its dynamic type
newPrimitiveValue(t, s) ==
  LET k == Kind(t) IN
  CASE k = "Bool" ->
         LET r == ParseBool(s) IN
         IF r.err # NoErr THEN PrimErr(r.err) ELSE PrimOk([t |-> "bool", v |-> r.b])
    [] k \in SignedKinds ->
         LET r == ParseInt(s) IN
         IF r.err # NoErr THEN PrimErr(r.err)
         ELSE IF OverflowInt(k, r.n) THEN PrimErr("number overflow")
         ELSE PrimOk([t |-> BuiltinOfKind(k), v |-> ConvInt(k, r.n)])
    [] k \in UnsignedKinds ->
         LET r == ParseUint(s) IN
         IF r.err # NoErr THEN PrimErr(r.err)
         ELSE IF OverflowUint(k, r.n) THEN PrimErr("unsigned number overflow")
         ELSE PrimOk([t |-> BuiltinOfKind(k), v |-> ConvUint(k, r.n)])
    [] k \in FloatKinds ->
         LET r == ParseFloat(s) IN
         IF r.err # NoErr THEN PrimErr(r.err)
         \* reflect.ValueOf(t).Elem() is the Value of the type descriptor, of
         \* kind Struct: OverflowFloat panics on every kind but Float32/Float64
         ELSE PrimPanic("reflect: call of reflect.Value.OverflowFloat on struct Value")
    [] OTHER -> PrimOk([t |-> "string", v |-> s])

----------------------------------------------------------------------------
(* Values and storage *)

\* A value of a field: a natural number for a scalar (0 is the zero value; for
\* fang.Count the count itself), a sequence for a slice, an array or a
\* struct, [nil, m] for a map (m a function), and for a pointer the address
\* of the heap cell it points at (0 is nil).
NilMap == [nil |-> TRUE, m |-> <<>>]
\* reflect.MakeMap
MakeMap == [nil |-> FALSE, m |-> <<>>]

RECURSIVE Zero(_)
\* reflect.New(t).Elem(): the zero value of a type
Zero(t) ==
  CASE t.con = "struct" -> [i \in 1..Len(t.fields) |-> Zero(t.fields[i].Type)]
    [] t.con = "map" -> NilMap
    [] t.con = "slice" -> <<>>
    [] t.con = "array" -> <<0, 0>>
    [] OTHER -> 0

RECURSIVE GetPath(_, _)
GetPath(v, p) == IF p = <<>> THEN v ELSE GetPath(v[Head(p)], Tail(p))
RECURSIVE SetPath(_, _, _)
SetPath(v, p, x) ==
  IF p = <<>> THEN x ELSE [v EXCEPT ![Head(p)] = SetPath(v[Head(p)], Tail(p), x)]

\* a location [a, p]: the field at path p of heap cell a
Read(h, loc) == GetPath(h[loc.a], loc.p)
Write(h, loc, x) == [h EXCEPT ![loc.a] = SetPath(h[loc.a], loc.p, x)]

----------------------------------------------------------------------------
(* BindError and outcomes *)

\* an error value: bind says it is a *BindError; Message is its format and
\* Arg the token its %q shows
NilErr == [bind |-> FALSE, Message |-> "", Arg |-> <<>>, Type |-> NoType, Cause |-> NoErr]
BindError(msg, type) ==
  [bind |-> TRUE, Message |-> msg, Arg |-> <<>>, Type |-> type, Cause |-> NoErr]

\* what a call came to: it returned err (nil: "ok"), or it panicked
RetOk == [out |-> "ok", err |-> NilErr, panic |-> ""]
RetErr(e) == [out |-> "error", err |-> e, panic |-> ""]
RetPanic(v) == [out |-> "panic", err |-> NilErr, panic |-> v]

----------------------------------------------------------------------------
(* structField *)

RECURSIVE FieldsFunc(_, _, _)
\* strings.FieldsFunc(s, sep): the maximal runs of bytes outside seps; cur is
\* the run being read
FieldsFunc(s, seps, cur) ==
  IF s = <<>> THEN (IF cur = <<>> THEN <<>> ELSE <<cur>>)
  ELSE IF s[1] \in seps
    THEN (IF cur = <<>> THEN <<>> ELSE <<cur>>) \o FieldsFunc(Tail(s), seps, <<>>)
    ELSE FieldsFunc(Tail(s), seps, Append(cur, s[1]))

\* the `fang` tag split at ',' alone
attrsAtCommas(f) == FieldsFunc(f.Field.Tag.fang, {44}, <<>>)

\* structField.attrs: the `fang` tag split at ',' and ' '
attrs(f) == FieldsFunc(f.Field.Tag.fang, {44, 32}, <<>>)

\* structField.Name
Name(f) ==
  IF Len(f.Field.Tag.name) # 0 THEN f.Field.Tag.name ELSE toSnakeCase(f.Field.Name)

\* the cases of the switch of structField.Persistent
PersistentAttrs == {B("persistent"), B("persist"), B("p")}
\* structField.Persistent
Persistent(f) == LET as == attrs(f) IN \E i \in 1..Len(as) : as[i] \in PersistentAttrs

\* the cases of the switch of structField.Required
RequiredAttrs == {B("required"), B("require"), B("r")}
\* structField.Required
Required(f) == LET as == attrs(f) IN \E i \in 1..Len(as) : as[i] \in RequiredAttrs

\* newStructField(f, v): the structField of the field at loc, and the heap
\* after it: a nil pointer field is set to a new zero value and the field is
\* its pointee; a map field is set to a new map
newStructField(h, sf, loc) ==
  LET t == sf.Type IN
  IF Kind(t) = "Ptr" THEN
    LET h1 == IF Read(h, loc) = 0
                THEN Append(Write(h, loc, Len(h) + 1), Zero(t.elem)) ELSE h
    IN [heap |-> h1,
        field |-> [Type |-> t.elem, Value |-> [a |-> Read(h1, loc), p |-> <<>>], Field |-> sf]]
  ELSE IF Kind(t) = "Map" THEN
    [heap |-> Write(h, loc, MakeMap), field |-> [Type |-> t, Value |-> loc, Field |-> sf]]
  ELSE [heap |-> h, field |-> [Type |-> t, Value |-> loc, Field |-> sf]]

----------------------------------------------------------------------------
(* The flag sets of the command (spf13/pflag, spf13/cobra) *)

\* the local flag set for every field
newInvokerLocal(f) == "local"

\* invoker.FlagSet, as newInvoker chooses it
newInvoker(f) == IF Persistent(f) THEN "persistent" ELSE "local"

HasFlag(fs, name) == \E i \in 1..Len(fs) : fs[i].Name = name

\* a handler's outcome: [out, st, err, panic]
HOk(st) == [out |-> "ok", st |-> st, err |-> NilErr, panic |-> ""]
HErr(st, e) == [out |-> "error", st |-> st, err |-> e, panic |-> ""]
HPanic(st, v) == [out |-> "panic", st |-> st, err |-> NilErr, panic |-> v]

\* One of pflag's XxxVarP(p, name, shorthand, value, usage) on the flag set of
\* the invoker: newXxxValue stores value through p, and FlagSet.AddFlag
\* panics when the set already holds the name.  strat says how the flag's
\* Value sets an argument; def is the default the flag is shown with.
VarP(st, f, strat, value) ==
  LET set == newInvoker(f)
      h1 == Write(st.heap, f.Value, value)
      st1 == [st EXCEPT !.heap = h1]
      flag == [Name |-> Name(f), loc |-> f.Value, strat |-> strat, Type |-> f.Type,
               DefValue |-> value, changed |-> FALSE, required |-> FALSE]
  IN IF HasFlag(st.cmd[set], Name(f))
       THEN HPanic(st1, "flag redefined")
       ELSE HOk([st1 EXCEPT !.cmd[set] = Append(@, flag)])

\* invoker.WithInvoke, given what its handler came to
WithInvoke(f, h) ==
  IF h.out = "panic" THEN
    \* the deferred function recovers, assigns err, and panics again with v
    [h.st EXCEPT !.ret = RetPanic(h.panic)]
  ELSE IF h.out = "error" THEN
    [h.st EXCEPT !.ret = RetErr(IF h.err.bind THEN h.err
                                 ELSE [BindError("internal error", NoType)
                                         EXCEPT !.Cause = h.err.Message])]
  ELSE IF Required(f) THEN
    \* cobra's MarkFlagRequired / MarkPersistentFlagRequired: an annotation on
    \* the flag of that name in Flags() / PersistentFlags(), an error when
    \* the set holds no such flag
    LET set == IF Persistent(f) THEN "persistent" ELSE "local"
        fs == h.st.cmd[set]
    IN IF HasFlag(fs, Name(f))
         THEN [h.st EXCEPT !.cmd[set] =
                 [i \in 1..Len(fs) |->
                    IF fs[i].Name = Name(f) THEN [fs[i] EXCEPT !.required = TRUE] ELSE fs[i]],
               !.ret = RetOk]
         ELSE [h.st EXCEPT !.ret =
                 RetErr([NilErr EXCEPT !.Message = "no such flag", !.Arg = Name(f)])]
  ELSE [h.st EXCEPT !.ret = RetOk]

\* invoker.Invoke(fVarP), fVarP a pflag method whose pointer parameter is
\* *param: reflect's Call panics unless the field's type is param, and the
\* field's own value is the default
Invoke(st, f, strat, param) ==
  WithInvoke(f,
    IF f.Type # param
      THEN HPanic(st, "reflect: Call using field pointer as another type")
      ELSE VarP(st, f, strat, Read(st.heap, f.Value)))

----------------------------------------------------------------------------
(* mapValue *)

RejectedKinds == {"Chan", "Array", "Struct", "Ptr", "UnsafePointer", "Uintptr"}

\* newMapValue(v): the kinds it rejects for the key and for the element
newMapValue(f) ==
  IF Kind(f.Type.key) \in RejectedKinds
    THEN RetErr(BindError("unsupported type of map key", f.Type.key))
  ELSE IF Kind(f.Type.elem) \in RejectedKinds
    THEN RetErr(BindError("unsupported type of map value", f.Type.key))
  ELSE RetOk

\* encoding/json's Marshal of a map value fails when the key kind is neither
\* a string nor an integer kind, and when an entry holds a value json has no
\* encoding for
JsonKeyKinds == SignedKinds \cup UnsignedKinds \cup {"String", "Uintptr"}
JsonNoEncoding == {"Chan", "Func", "Complex128", "UnsafePointer"}
MarshalFails(t, v) ==
  \/ Kind(t.key) \notin JsonKeyKinds
  \/ (DOMAIN v.m # {} /\ Kind(t.elem) \in JsonNoEncoding)

\* mapValue.String: panics when json.Marshal fails
mapValueString(t, v) == IF MarshalFails(t, v) THEN "panic" ELSE "ok"

\* Binder.bindToMap: newMapValue, then FlagSet.VarPF, which reads the
\* default from mapValue.String
bindToMap(st, f) ==
  WithInvoke(f,
    LET m == newMapValue(f) IN
    IF m.out # "ok" THEN HErr(st, m.err)
    ELSE IF mapValueString(f.Type, Read(st.heap, f.Value)) = "panic"
      THEN HPanic(st, "json: unsupported type")
    ELSE VarP(st, f, "map", Read(st.heap, f.Value)))

\* a split at the last '=' instead of the first
SplitAtLast(arg) ==
  LET eqs == {i \in 1..Len(arg) : arg[i] = 61} IN
  IF eqs = {} THEN <<arg>>
  ELSE LET i == CHOOSE j \in eqs : \A k \in eqs : j >= k IN
       <<SubSeq(arg, 1, i - 1), SubSeq(arg, i + 1, Len(arg))>>

\* strings.SplitN(arg, "=", 2)
SplitN2(arg) ==
  LET eqs == {i \in 1..Len(arg) : arg[i] = 61} IN
  IF eqs = {} THEN <<arg>>
  ELSE LET i == CHOOSE j \in eqs : \A k \in eqs : j <= k IN
       <<SubSeq(arg, 1, i - 1), SubSeq(arg, i + 1, Len(arg))>>

\* a value of dynamic type vt may be stored where type t is asked for
Assignable(vt, t) == t = Base(vt) \/ Kind(t) = "Interface"

\* reflect.Value.SetMapIndex(key, value) on the map mv of type t: a panic on
\* a key or a value of another type and on a nil map
SetMapIndex(t, mv, key, value) ==
  IF ~Assignable(key.t, t.key) \/ ~Assignable(value.t, t.elem)
    THEN [out |-> "panic", panic |-> "reflect.Set: value is not assignable"]
  ELSE IF mv.nil THEN [out |-> "panic", panic |-> "assignment to entry in nil map"]
  ELSE [out |-> "ok",
        map |-> [mv EXCEPT !.m = [k \in DOMAIN mv.m \cup {key} |->
                                    IF k = key THEN value ELSE mv.m[k]]]]

\* mapValue.Set(arg) on the map of type t at loc: [heap, ret]
mapValueSet(h, t, loc, arg) ==
  LET kv == SplitN2(arg) IN
  IF Len(kv) # 2 THEN
    [heap |-> h, ret |-> RetErr(BindError("invalid key-value pair format, key=value", NoType))]
  ELSE
    LET key == newPrimitiveValue(t.key, kv[1]) IN
    IF key.out = "panic" THEN [heap |-> h, ret |-> RetPanic(key.err)]
    ELSE IF key.out = "error" THEN
      [heap |-> h,
       ret |-> RetErr([BindError("unexpected map key %q", t.key)
                         EXCEPT !.Arg = kv[1], !.Cause = key.err])]
    ELSE
      LET value == newPrimitiveValue(t.elem, kv[2]) IN
      IF value.out = "panic" THEN [heap |-> h, ret |-> RetPanic(value.err)]
      ELSE IF value.out = "error" THEN
        [heap |-> h,
         ret |-> RetErr([BindError("unexpected map value %q", t.key)
                           EXCEPT !.Arg = kv[1], !.Cause = value.err])]
      ELSE
        LET r == SetMapIndex(t, Read(h, loc), key.val, value.val) IN
        IF r.out = "panic" THEN [heap |-> h, ret |-> RetPanic(r.panic)]
        ELSE [heap |-> Write(h, loc, r.map), ret |-> RetOk]

----------------------------------------------------------------------------
(* Binder *)

\* a CountVarP that would leave the pointee as it finds it
bindToCountKeep(st, f) == WithInvoke(f, VarP(st, f, "count", Read(st.heap, f.Value)))

\* Binder.bindToCount: pflag's CountVarP stores 0 through the pointer
bindToCount(st, f) == WithInvoke(f, VarP(st, f, "count", 0))

\* Binder.bindToBytesHex: the field's value is the default
bindToBytesHex(st, f) == WithInvoke(f, VarP(st, f, "byteshex", Read(st.heap, f.Value)))

\* Binder.bindToPrimitive
bindToPrimitive(st, f) ==
  IF f.Type \in {_IPType, _IPNetType, _IPMaskType, _DurationType}
    THEN Invoke(st, f, "prim", f.Type)
  ELSE IF Kind(f.Type) \in {"Bool", "String"} \cup SignedKinds \cup UnsignedKinds \cup FloatKinds
    THEN Invoke(st, f, "prim", Base(BuiltinOfKind(Kind(f.Type))))
  ELSE [st EXCEPT !.ret = RetErr(BindError("unsupported type of field", f.Type))]

\* Binder.bindToSlice
bindToSlice(st, f) ==
  LET et == f.Type.elem IN
  IF et \in {_IPType, _DurationType} THEN Invoke(st, f, "slice", SliceOf(et))
  ELSE IF Kind(et) \in {"Bool", "Int", "Uint", "Int32", "Int64", "Float32", "Float64", "String"}
    THEN Invoke(st, f, "slice", SliceOf(Base(BuiltinOfKind(Kind(et)))))
  ELSE [st EXCEPT !.ret = RetErr(BindError("unsupported slice type", f.Type))]

\* every field taken as settable
CanSetAlways(sf) == TRUE

\* v.Field(i).CanSet() && CanAddr(): the exported fields of an addressable struct
CanSet(sf) == sf.Exported

RECURSIVE bindToStruct(_, _, _)
RECURSIVE visitStructField(_, _, _, _)

\* a dispatch without the case of the Count type
visitNoCount(st, f) ==
  IF f.Type \in {_IPType, _DurationType, _IPNetType, _IPMaskType} THEN bindToPrimitive(st, f)
  ELSE IF f.Type = _BytesHexType THEN bindToBytesHex(st, f)
  ELSE CASE Kind(f.Type) = "Struct" -> bindToStruct(st, f.Type, f.Value)
         [] Kind(f.Type) \in {"Array", "Slice"} -> bindToSlice(st, f)
         [] Kind(f.Type) = "Map" -> bindToMap(st, f)
         [] OTHER -> bindToPrimitive(st, f)

\* the visit function of Binder.bindToStruct
visit(st, f) ==
  IF f.Type \in {_IPType, _DurationType, _IPNetType, _IPMaskType} THEN bindToPrimitive(st, f)
  ELSE IF f.Type = _CountType THEN bindToCount(st, f)
  ELSE IF f.Type = _BytesHexType THEN bindToBytesHex(st, f)
  ELSE CASE Kind(f.Type) = "Struct" -> bindToStruct(st, f.Type, f.Value)
         [] Kind(f.Type) \in {"Array", "Slice"} -> bindToSlice(st, f)
         [] Kind(f.Type) = "Map" -> bindToMap(st, f)
         [] OTHER -> bindToPrimitive(st, f)

\* a walk that goes on after a field failed and returns the error at its end
visitStructFieldAll(st, t, loc, i) ==
  IF i > Len(t.fields) THEN [st EXCEPT !.ret = RetOk]
  ELSE IF ~CanSet(t.fields[i]) THEN visitStructField(st, t, loc, i + 1)
  ELSE LET nf == newStructField(st.heap, t.fields[i], [loc EXCEPT !.p = Append(@, i)])
           r == visit([st EXCEPT !.heap = nf.heap], nf.field)
           rest == visitStructField(r, t, loc, i + 1)
       IN IF r.ret.out = "panic" THEN r
          ELSE IF r.ret.out = "error" /\ rest.ret.out # "panic" THEN [rest EXCEPT !.ret = r.ret]
          ELSE rest

\* visitStructField, from field i on
visitStructField(st, t, loc, i) ==
  IF i > Len(t.fields) THEN [st EXCEPT !.ret = RetOk]
  ELSE IF ~CanSet(t.fields[i]) THEN visitStructField(st, t, loc, i + 1)
  ELSE LET nf == newStructField(st.heap, t.fields[i], [loc EXCEPT !.p = Append(@, i)])
           r == visit([st EXCEPT !.heap = nf.heap], nf.field)
       IN IF r.ret.out # "ok" THEN r ELSE visitStructField(r, t, loc, i + 1)

\* a walk that would register in a registry of its own
bindToStructAlone(st, t, loc) ==
  visitStructField([st EXCEPT !.cmd.local = <<>>, !.cmd.persistent = <<>>], t, loc, 1)

\* Binder.bindToStruct(v), v the struct of type t at loc
bindToStruct(st, t, loc) == visitStructField(st, t, loc, 1)

\* Binder.Bind(v), v = [shape, type]: "nil" is the nil interface, "value" a
\* value of the type, "ptr" a pointer to heap[1] of the type, "nilptr" a nil
\* pointer of that pointer type
BinderBind(st, v) ==
  IF v.shape = "nil"
    THEN [st EXCEPT !.ret = RetErr(BindError("unable bind nil value to command", NoType))]
  ELSE IF v.shape = "value"
    THEN [st EXCEPT !.ret = RetErr(BindError("unable bind to non-pointer value", v.type))]
  ELSE IF v.shape = "nilptr"
    \* rv.Elem() is the zero Value, of kind Invalid, and its Type() panics
    THEN [st EXCEPT !.ret = RetPanic("reflect: call of reflect.Value.Type on zero Value")]
  ELSE IF Kind(v.type) # "Struct"
    THEN [st EXCEPT !.ret = RetErr(BindError("unsupported type, use struct instead", v.type))]
  ELSE bindToStruct(st, v.type, [a |-> 1, p |-> <<>>])

\* New(cmd)
New(c) ==
  IF c.nil THEN RetErr(BindError("unable bind value to nil command", NoType)) ELSE RetOk

\* Bind(cmd, v)
Bind(st, v) == IF New(st.cmd).out # "ok" THEN [st EXCEPT !.ret = New(st.cmd)] ELSE BinderBind(st, v)

----------------------------------------------------------------------------
(* The callers of the model: targets, records and arguments *)

MaxFields == 2   \* fields of a record handed to Bind
MaxArgs == 2     \* arguments parsed after Bind

NilCmd == [nil |-> TRUE, local |-> <<>>, persistent |-> <<>>]
\* &cobra.Command{}
EmptyCmd == [nil |-> FALSE, local |-> <<>>, persistent |-> <<>>]

NoTag == [name |-> <<>>, fang |-> <<>>]
\* the identifier of the i-th field of a record: "AV", "BV", ...
FieldName(i) == <<64 + i, 86>>

\* a pointer as a caller writes it: nil, or the address of a value
NilPtr == [nil |-> TRUE]
Ref(x) == [nil |-> FALSE, ref |-> x]

\* values a caller's map holds: map[string]int{"a": 1}
StrVal(str) == [t |-> "string", v |-> B(str)]
IntVal(str) == [t |-> "int", v |-> [neg |-> FALSE, mag |-> B(str)]]
MapA1 == [nil |-> FALSE, m |-> [k \in {StrVal("a")} |-> IntVal("1")]]
MapB2 == [nil |-> FALSE, m |-> [k \in {StrVal("b")} |-> StrVal("2")]]

TInt == Base("int")
TString == Base("string")
F(t, x) == [Type |-> t, Exported |-> TRUE, Tag |-> NoTag, init |-> x]

\* the fields the records of Spec are made of, each with the value it holds
\* when Bind is called
FieldPool ==
  << F(TInt, 1),
    F(PtrTo(Base("bool")), NilPtr),
    F(PtrTo(TString), Ref(2)),
    F(_CountType, 2),
    F(PtrTo(_CountType), Ref(1)),
    F(_BytesHexType, 1),
    F(_DurationType, 1),
    F(SliceOf(TInt), <<1>>),
    F(MapOf(TString, TInt), MapA1),
    F(MapOf(TString, TInt), NilMap),
    F(PtrTo(MapOf(TString, TInt)), NilPtr),
    F(Base("chan int"), 0),
    F(Base("MyInt"), 1),
    [F(PtrTo(TInt), NilPtr) EXCEPT !.Exported = FALSE],
    [F(TString, 1) EXCEPT !.Tag.name = B("a-v")],
    [F(TInt, 2) EXCEPT !.Tag.fang = B("required,p")] >>

\* the record type and the record value made of pool entries es
RecordType(es) ==
  StructOf([i \in 1..Len(es) |->
    [Name |-> FieldName(i), Type |-> es[i].Type, Exported |-> es[i].Exported, Tag |-> es[i].Tag]])
RecordInit(es) == [i \in 1..Len(es) |-> es[i].init]

RECURSIVE Store(_, _, _)
RECURSIVE StoreFields(_, _, _, _, _)
\* the value of type t a caller wrote as xv, laid out in heap h: [h, v]
Store(h, t, xv) ==
  CASE t.con = "ptr" ->
         IF xv.nil THEN [h |-> h, v |-> 0]
         ELSE LET a == Len(h) + 1
                  s == Store(Append(h, 0), t.elem, xv.ref)
              IN [h |-> [s.h EXCEPT ![a] = s.v], v |-> a]
    [] t.con = "struct" -> StoreFields(h, t, xv, 1, <<>>)
    [] OTHER -> [h |-> h, v |-> xv]
StoreFields(h, t, xv, i, acc) ==
  IF i > Len(t.fields) THEN [h |-> h, v |-> acc]
  ELSE LET s == Store(h, t.fields[i].Type, xv[i]) IN
       StoreFields(s.h, t, xv, i + 1, Append(acc, s.v))

\* the heap in which heap[1] is the value xv of type t
HeapOf(t, xv) == LET s == Store(<<0>>, t, xv) IN [s.h EXCEPT ![1] = s.v]

Seqs(S, n) == UNION {[1..k -> S] : k \in 0..n}

\* what a caller may hand to Bind besides a pointer to a record
OddTargets ==
  << [shape |-> "nil", type |-> NoType, init |-> 0],
    [shape |-> "value", type |-> StructOf(<<>>), init |-> <<>>],
    [shape |-> "value", type |-> TInt, init |-> 0],
    [shape |-> "ptr", type |-> TInt, init |-> 0],
    [shape |-> "ptr", type |-> SliceOf(TInt), init |-> <<>>],
    [shape |-> "nilptr", type |-> StructOf(<<>>), init |-> <<>>],
    [shape |-> "nilptr", type |-> TInt, init |-> 0] >>

\* a pointer to the record made of the pool entries ix names
RecordTarget(pool, ix) ==
  LET es == [i \in 1..Len(ix) |-> pool[ix[i]]] IN
  [shape |-> "ptr", type |-> RecordType(es), init |-> RecordInit(es)]

NoLast == [op |-> "none", name |-> <<>>, tok |-> <<>>, pre |-> <<>>]
NoPin == [fn |-> "none"]

InitWith(c, tg) ==
  /\ cmd = c
  /\ target = [shape |-> tg.shape, type |-> tg.type]
  /\ heap = HeapOf(tg.type, tg.init)
  /\ ret = RetOk
  /\ pc = "start"
  /\ nargs = 0
  /\ last = NoLast
  /\ wordBits = 64
  /\ pin = NoPin
  /\ pout = NoPin

Init ==
  \/ \E c \in {NilCmd, EmptyCmd}, i \in 1..Len(OddTargets) : InitWith(c, OddTargets[i])
  \/ \E ix \in Seqs(1..Len(FieldPool), MaxFields) : InitWith(EmptyCmd, RecordTarget(FieldPool, ix))
  \/ \E ix \in Seqs(1..Len(FieldPool), 1) : InitWith(NilCmd, RecordTarget(FieldPool, ix))

----------------------------------------------------------------------------
(* Actions *)

\* the caller calls Bind(cmd, v)
BindStep ==
  /\ pc = "start"
  /\ LET r == Bind([heap |-> heap, cmd |-> cmd, ret |-> RetOk], target) IN
     /\ heap' = r.heap
     /\ cmd' = r.cmd
     /\ ret' = r.ret
     /\ pc' = IF r.ret.out = "panic" THEN "crashed" ELSE "bound"
     /\ last' = [op |-> "bind", name |-> <<>>, tok |-> <<>>, pre |-> heap]
  /\ UNCHANGED <<target, nargs, wordBits, pin, pout>>

\* cobra's ParseFlags merges the persistent flags into the local ones: a
\* local flag hides a persistent flag of its name
Lookup(c, name) ==
  IF HasFlag(c.local, name)
    THEN [set |-> "local", i |-> CHOOSE i \in 1..Len(c.local) : c.local[i].Name = name]
    ELSE [set |-> "persistent",
          i |-> CHOOSE i \in 1..Len(c.persistent) : c.persistent[i].Name = name]
FlagNames(c) ==
  {c.local[i].Name : i \in 1..Len(c.local)} \cup {c.persistent[i].Name : i \in 1..Len(c.persistent)}

\* the values an argument of a pflag flag parses to (1 also stands for true)
ParseVals == {1, 2}

\* pflag's Value.Set of a flag other than a map flag, with an argument that
\* parses to x: a scalar and a hex string are stored, a count is incremented,
\* a slice is replaced by the first argument and appended to by the next
pflagSet(h, fl, x) ==
  CASE fl.strat = "count" -> Write(h, fl.loc, Read(h, fl.loc) + 1)
    [] fl.strat = "slice" ->
         Write(h, fl.loc, IF fl.changed THEN Append(Read(h, fl.loc), x) ELSE <<x>>)
    [] OTHER -> Write(h, fl.loc, x)

\* ParseFlags reaches an argument of flag `name` that parses to x
ParseArg(name, x) ==
  /\ pc = "bound"
  /\ nargs < MaxArgs
  /\ name \in FlagNames(cmd)
  /\ LET at == Lookup(cmd, name)
         fl == cmd[at.set][at.i]
     IN /\ fl.strat # "map"
        /\ heap' = pflagSet(heap, fl, x)
        /\ cmd' = [cmd EXCEPT ![at.set][at.i].changed = TRUE]
        /\ ret' = RetOk
        /\ pc' = "bound"
        /\ last' = [op |-> "parse", name |-> name, tok |-> <<x>>, pre |-> heap]
  /\ nargs' = nargs + 1
  /\ UNCHANGED <<target, wordBits, pin, pout>>

\* ParseFlags reaches the argument tok of the map flag `name`: mapValue.Set
ParseMapArg(name, tok) ==
  /\ pc = "bound"
  /\ nargs < MaxArgs
  /\ name \in FlagNames(cmd)
  /\ LET at == Lookup(cmd, name)
         fl == cmd[at.set][at.i]
     IN /\ fl.strat = "map"
        /\ LET r == mapValueSet(heap, fl.Type, fl.loc, tok) IN
           /\ heap' = r.heap
           /\ ret' = r.ret
           /\ pc' = IF r.ret.out = "panic" THEN "crashed" ELSE "bound"
        /\ cmd' = [cmd EXCEPT ![at.set][at.i].changed = TRUE]
        /\ last' = [op |-> "set", name |-> name, tok |-> tok, pre |-> heap]
  /\ nargs' = nargs + 1
  /\ UNCHANGED <<target, wordBits, pin, pout>>

\* the arguments a caller of Spec gives a map flag
FewTokens == {B("a=1"), B("b=2")}

Next ==
  \/ BindStep
  \/ \E name \in FlagNames(cmd), x \in ParseVals : ParseArg(name, x)
  \/ \E name \in FlagNames(cmd), tok \in FewTokens : ParseMapArg(name, tok)

Spec == Init /\ [][Next]_vars

----------------------------------------------------------------------------
(* SpecMap: a record of one map field, bound and then assigned to *)

\* the map fields of SpecMap, each with the value it holds when Bind is called
MapFieldPool ==
  << F(MapOf(TString, TInt), NilMap),
     F(MapOf(TString, TInt), MapA1),
     F(MapOf(TString, TString), NilMap),
     F(MapOf(TInt, TString), NilMap),
     F(MapOf(Base("uint8"), Base("bool")), NilMap),
     F(MapOf(TString, Base("float64")), NilMap),
     F(MapOf(Base("bool"), TString), NilMap),
     F(MapOf(Base("float32"), TInt), NilMap),
     F(MapOf(TString, SliceOf(TInt)), NilMap),
     F(MapOf(TString, Base("interface {}")), NilMap),
     F(MapOf(TString, Base("complex128")), NilMap),
     F(MapOf(Base("chan int"), TInt), NilMap),
     F(MapOf(TString, PtrTo(TInt)), NilMap),
     F(MapOf(Base("MyString"), TInt), NilMap),
     F(PtrTo(MapOf(TString, TInt)), NilPtr),
     F(PtrTo(MapOf(TString, TInt)), Ref(MapA1)),
     F(PtrTo(MapOf(TString, TInt)), Ref(NilMap)),
     F(PtrTo(MapOf(TString, TString)), Ref(MapB2)) >>

KeyHalves == {B("a"), B("b"), B("1"), B("300")}
ValueHalves == {B("1"), B("2"), B("x"), B("1=2"), B("1.5")}
\* the arguments a caller of SpecMap gives the map flag
MapTokens ==
  {k \o <<61>> \o v : k \in KeyHalves, v \in ValueHalves} \cup {B("a"), <<>>}

InitMap == \E i \in 1..Len(MapFieldPool) : InitWith(EmptyCmd, RecordTarget(MapFieldPool, <<i>>))

NextMap ==
  \/ BindStep
  \/ \E name \in FlagNames(cmd), tok \in MapTokens : ParseMapArg(name, tok)

SpecMap == InitMap /\ [][NextMap]_vars

----------------------------------------------------------------------------
(* Properties of Bind *)

\* the state Bind returned (or panicked) in
AfterBind == last.op = "bind"

AllFlags == cmd.local \o cmd.persistent
NoOption == AllFlags = <<>>

NotRecordTarget ==
  \/ target.shape \in {"nil", "value", "nilptr"}
  \/ target.shape = "ptr" /\ Kind(target.type) # "Struct"

\* C1: Bind with a nil command, or with a target that is nil, a nil pointer,
\* no pointer or a pointer to something other than a struct, returns an
\* error and registers no option; Bind of a pointer to a struct with no
\* fields returns no error and registers no option.
C1_InvalidTargetsAreErrors ==
  AfterBind =>
    /\ (cmd.nil \/ NotRecordTarget) => (ret.out = "error" /\ NoOption)
    /\ (~cmd.nil /\ target.shape = "ptr" /\ target.type = StructOf(<<>>))
         => (ret.out = "ok" /\ NoOption)

\* the value the storage of flag fl held before Bind: the storage of a field
\* that was a nil pointer did not exist and counts as the zero value
PreValue(fl) ==
  IF fl.loc.a <= Len(last.pre) THEN Read(last.pre, fl.loc) ELSE Zero(fl.Type)

\* ... where a map that was unset counts as the empty map
ExpectedDefault(fl) ==
  IF fl.strat = "map" /\ PreValue(fl).nil THEN MakeMap ELSE PreValue(fl)

\* C2: every option Bind registers has as its default the value its field
\* held before the call, and the field holds that value when Bind returns
\* (a map field that was unset holding the empty map).
C2_DefaultIsValueBeforeBind ==
  AfterBind =>
    \A i \in 1..Len(AllFlags) :
      /\ AllFlags[i].DefValue = ExpectedDefault(AllFlags[i])
      /\ Read(heap, AllFlags[i].loc) = ExpectedDefault(AllFlags[i])

\* the settable pointer fields of the record handed to Bind
PointerFields ==
  IF target.shape = "ptr" /\ Kind(target.type) = "Struct"
    THEN {i \in 1..Len(target.type.fields) :
            Kind(target.type.fields[i].Type) = "Ptr" /\ CanSet(target.type.fields[i])}
    ELSE {}

\* the flag of the last argument parsed
LastFlag == LET at == Lookup(cmd, last.name) IN cmd[at.set][at.i]

\* the argument tok is well formed for a map of type t: it holds a '=' and
\* both halves parse
WellFormed(t, tok) ==
  /\ Len(SplitN2(tok)) = 2
  /\ newPrimitiveValue(t.key, SplitN2(tok)[1]).out = "ok"
  /\ newPrimitiveValue(t.elem, SplitN2(tok)[2]).out = "ok"

\* C3: when Bind returns, a settable pointer field that was nil points at the
\* zero value of its element type, one that was not nil points where it did,
\* at the value it did; and an argument parsed for the option of such a
\* field is stored in its pointee.
C3_PointerFieldsAllocatedAndKept ==
  /\ (AfterBind /\ ret.out = "ok") =>
       \A i \in PointerFields :
         LET was == last.pre[1][i]
             now == heap[1][i]
         IN /\ now # 0
            /\ was = 0 => heap[now] = Zero(target.type.fields[i].Type.elem)
            /\ was # 0 => (now = was /\ heap[now] = last.pre[was])
  /\ (last.op = "parse" /\ LastFlag.strat \in {"prim", "byteshex"}) =>
       Read(heap, LastFlag.loc) = last.tok[1]
  /\ (last.op = "set" /\ LastFlag.loc.a # 1 /\ WellFormed(LastFlag.Type, last.tok)) =>
       /\ ret.out = "ok"
       /\ ~Read(heap, LastFlag.loc).nil
       /\ newPrimitiveValue(LastFlag.Type.key, SplitN2(last.tok)[1]).val
            \in DOMAIN Read(heap, LastFlag.loc).m

----------------------------------------------------------------------------
(* Properties of map flags *)

RECURSIVE BeforeEq(_)
\* the bytes of tok before its first '=' (all of it when it holds none)
BeforeEq(tok) ==
  IF tok = <<>> \/ tok[1] = 61 THEN <<>> ELSE <<tok[1]>> \o BeforeEq(Tail(tok))
HasEq(tok) == \E i \in 1..Len(tok) : tok[i] = 61
KeyHalf(tok) == BeforeEq(tok)
ValueHalf(tok) == SubSeq(tok, Len(BeforeEq(tok)) + 2, Len(tok))

\* C4: an accepted argument key=value, split at its first '=', inserts or
\* overwrites that one key of the map and leaves every other entry as it
\* was; an argument that is not accepted leaves the map as it was.
C4_SetInsertsOrOverwrites ==
  last.op = "set" =>
    LET t == LastFlag.Type
        before == Read(last.pre, LastFlag.loc)
        after == Read(heap, LastFlag.loc)
        key == newPrimitiveValue(t.key, KeyHalf(last.tok)).val
        value == newPrimitiveValue(t.elem, ValueHalf(last.tok)).val
    IN IF ret.out = "ok"
         THEN /\ HasEq(last.tok)
              /\ ~after.nil
              /\ DOMAIN after.m = DOMAIN before.m \cup {key}
              /\ after.m[key] = value
              /\ \A k \in DOMAIN before.m \ {key} : after.m[k] = before.m[k]
         ELSE after = before

\* an accepted argument overwrote the value of a key with a value half that
\* holds a '=' itself, while another key kept its entry
C4_Witness ==
  /\ last.op = "set"
  /\ ret.out = "ok"
  /\ HasEq(ValueHalf(last.tok))
  /\ LET before == Read(last.pre, LastFlag.loc)
         after == Read(heap, LastFlag.loc)
         key == newPrimitiveValue(LastFlag.Type.key, KeyHalf(last.tok)).val
     IN /\ key \in DOMAIN before.m
        /\ before.m[key] # after.m[key]
        /\ DOMAIN before.m # {key}

\* the map fields of the record handed to Bind, behind a pointer or not
MapTypeOf(sf) == IF Kind(sf.Type) = "Ptr" THEN sf.Type.elem ELSE sf.Type
MapFields ==
  IF target.shape = "ptr" /\ Kind(target.type) = "Struct"
    THEN {i \in 1..Len(target.type.fields) :
            CanSet(target.type.fields[i]) /\ Kind(MapTypeOf(target.type.fields[i])) = "Map"}
    ELSE {}

\* the map field i held before Bind: the nil map behind a nil pointer
MapBefore(i) ==
  IF Kind(target.type.fields[i].Type) = "Ptr"
    THEN (IF last.pre[1][i] = 0 THEN NilMap ELSE last.pre[last.pre[1][i]])
    ELSE last.pre[1][i]
\* the map field i holds now
MapNow(i) ==
  IF Kind(target.type.fields[i].Type) = "Ptr"
    THEN (IF heap[1][i] = 0 THEN NilMap ELSE heap[heap[1][i]])
    ELSE heap[1][i]

\* C5: after a successful Bind a map field that was unset, behind a pointer
\* or not, is an empty map that can be written to, and a map field that was
\* set holds the entries it held.
C5_MapsInitializedIfUnset ==
  (AfterBind /\ ret.out = "ok") =>
    \A i \in MapFields :
      IF MapBefore(i).nil THEN MapNow(i) = MakeMap ELSE MapNow(i) = MapBefore(i)

PrimitiveKinds == {"Bool", "String"} \cup SignedKinds \cup UnsignedKinds \cup FloatKinds

\* the structField of field i of the record, as far as its name goes
FieldAt(i) == [Field |-> target.type.fields[i]]

\* C6: a map field whose key kind or element kind is not boolean, integer,
\* unsigned integer, floating point or string makes Bind return an error,
\* and no option is registered for it.
C6_OnlyPrimitiveMapsRegistered ==
  AfterBind =>
    \A i \in MapFields :
      LET t == MapTypeOf(target.type.fields[i]) IN
      (Kind(t.key) \notin PrimitiveKinds \/ Kind(t.elem) \notin PrimitiveKinds) =>
        /\ ret.out = "error"
        /\ ~HasFlag(AllFlags, Name(FieldAt(i)))

\* C7: an argument without '=' is rejected with a BindError; one whose key
\* half does not parse with an error of the key side that carries the key
\* half and the key type; one whose value half does not parse with an error
\* of the value side that carries the value half.
C7_SetErrorsNameSideAndToken ==
  last.op = "set" =>
    LET t == LastFlag.Type
        key == newPrimitiveValue(t.key, KeyHalf(last.tok))
        value == newPrimitiveValue(t.elem, ValueHalf(last.tok))
    IN /\ ~HasEq(last.tok) => (ret.out = "error" /\ ret.err.bind)
       /\ (HasEq(last.tok) /\ key.out = "error") =>
            /\ ret.out = "error" /\ ret.err.bind
            /\ ret.err.Message = "unexpected map key %q"
            /\ ret.err.Arg = KeyHalf(last.tok)
            /\ ret.err.Type = t.key
       /\ (HasEq(last.tok) /\ key.out = "ok" /\ value.out = "error") =>
            /\ ret.out = "error" /\ ret.err.bind
            /\ ret.err.Message = "unexpected map value %q"
            /\ ret.err.Arg = ValueHalf(last.tok)

----------------------------------------------------------------------------
(* SpecPrim: newPrimitiveValue called on its own *)

\* the types newPrimitiveValue is called with
PrimTypes ==
  {Base(n) : n \in {"int8", "int16", "int32", "int64", "int",
                    "uint8", "uint16", "uint32", "uint64", "uint",
                    "float32", "float64", "bool", "string", "MyInt", "time.Duration"}}

\* digit strings at the edges of the ranges of 8, 16, 32 and 64 bits
EdgeDigits ==
  {B("0"), B("1"), B("5"), B("00"), B("007"),
   B("127"), B("128"), B("129"), B("255"), B("256"),
   B("32767"), B("32768"), B("32769"), B("65535"), B("65536"),
   B("2147483647"), B("2147483648"), B("2147483649"), B("4294967295"), B("4294967296"),
   B("9223372036854775807"), B("9223372036854775808"), B("9223372036854775809"),
   B("18446744073709551615"), B("18446744073709551616")}

\* the tokens newPrimitiveValue is called with
PrimTokens ==
  {sign \o d : sign \in {<<>>, <<43>>, <<45>>}, d \in EdgeDigits}
    \cup {<<>>, B("-"), B("+"), B("a"), B("1a"), B("1 "), B("1.5"), B("-1.5"), B(".5"),
          B("1."), B("."), B("1.2.3"), B("t"), B("true"), B("yes")}

InitPrim ==
  /\ \E t \in PrimTypes, tok \in PrimTokens :
       pin = [fn |-> "newPrimitiveValue", t |-> t, s |-> tok]
  /\ wordBits \in {32, 64}
  /\ pout = NoPin
  /\ pc = "start"
  /\ cmd = EmptyCmd
  /\ target = [shape |-> "nil", type |-> NoType]
  /\ heap = <<>>
  /\ ret = RetOk
  /\ nargs = 0
  /\ last = NoLast

\* the caller calls newPrimitiveValue(t, s)
PrimStep ==
  /\ pc = "start"
  /\ pin.fn = "newPrimitiveValue"
  /\ pout' = [fn |-> pin.fn, r |-> newPrimitiveValue(pin.t, pin.s)]
  /\ pc' = "done"
  /\ UNCHANGED <<cmd, target, heap, ret, nargs, last, wordBits, pin>>

NextPrim == PrimStep

SpecPrim == InitPrim /\ [][NextPrim]_vars

----------------------------------------------------------------------------
(* Properties of newPrimitiveValue *)

PrimReturned == pc = "done" /\ pin.fn = "newPrimitiveValue"

HasSign(s) == s # <<>> /\ s[1] \in {43, 45}
\* a base-10 token: an optional sign and at least one digit
Base10(s) == AllDigits(IF HasSign(s) THEN Tail(s) ELSE s)
\* the number a base-10 token writes: [neg, mag], zero without sign
NumberOf(s) ==
  LET mag == StripZeros(IF HasSign(s) THEN Tail(s) ELSE s) IN
  [neg |-> s[1] = 45 /\ mag # <<48>>, mag |-> mag]

\* n lies within the range of the integer kind k
InRange(k, n) ==
  IF k \in SignedKinds
    THEN NumLeq(n.mag, IF n.neg THEN MinIntMag(BitSize(k)) ELSE MaxIntMag(BitSize(k)))
    ELSE ~n.neg /\ NumLeq(n.mag, MaxUintMag(BitSize(k)))
\* n fits in the 64 bits of the signedness of k
Fits64(k, n) == InRange(IF k \in SignedKinds THEN "Int64" ELSE "Uint64", n)
OverflowMessage(k) ==
  IF k \in SignedKinds THEN "number overflow" ELSE "unsigned number overflow"

\* what the integer kind k makes of the number n of a token it can read
IntegerOutcome(k, n, r) ==
  IF InRange(k, n)
    THEN r.out = "ok" /\ r.val = [t |-> BuiltinOfKind(k), v |-> n]
    ELSE r.out = "error" /\ (Fits64(k, n) => r.err = OverflowMessage(k))

\* every integer kind that holds n accepts the token s
WiderKindsAccept(s, n) ==
  \A k \in SignedKinds \cup UnsignedKinds :
    (InRange(k, n) /\ (k \in UnsignedKinds => ~HasSign(s))) =>
      newPrimitiveValue(Base(BuiltinOfKind(k)), s).out = "ok"

\* the statement of C8 as written: every base-10 token, signed or not, for
\* every integer kind, signed or not
C8_EveryBase10Token ==
  (PrimReturned /\ Kind(pin.t) \in SignedKinds \cup UnsignedKinds /\ Base10(pin.s)) =>
    IntegerOutcome(Kind(pin.t), NumberOf(pin.s), pout.r)

\* C8: for an integer kind and a base-10 token, unsigned for an unsigned
\* kind, newPrimitiveValue returns the number of the token typed as the kind
\* when the kind holds it, and otherwise an error, the overflow error of the
\* signedness when the number fits in 64 bits; a token with a sign is a
\* syntax error for an unsigned kind; every kind that holds the number
\* accepts the token.
C8_IntegerRangeChecked ==
  (PrimReturned /\ Kind(pin.t) \in SignedKinds \cup UnsignedKinds /\ Base10(pin.s)) =>
    LET k == Kind(pin.t) IN
    IF k \in UnsignedKinds /\ HasSign(pin.s)
      THEN pout.r.out = "error" /\ pout.r.err = ErrSyntax
      ELSE /\ IntegerOutcome(k, NumberOf(pin.s), pout.r)
           /\ WiderKindsAccept(pin.s, NumberOf(pin.s))

\* int8 was handed 128: number overflow, and int16 accepts the same token
C8_Witness ==
  /\ PrimReturned
  /\ pin.t = Base("int8")
  /\ pin.s = B("128")
  /\ pout.r.out = "error"
  /\ pout.r.err = "number overflow"
  /\ newPrimitiveValue(Base("int16"), pin.s).out = "ok"

\* C9: for a float kind and a token that parses as a 64-bit float,
\* newPrimitiveValue returns: a value of the kind, or the error
\* 'float number overflow'.
C9_FloatReturns ==
  (PrimReturned /\ Kind(pin.t) \in FloatKinds /\ ParseFloat(pin.s).err = NoErr) =>
    \/ pout.r.out = "ok" /\ pout.r.val.t = BuiltinOfKind(Kind(pin.t))
    \/ pout.r.out = "error" /\ pout.r.err = "float number overflow"

----------------------------------------------------------------------------
(* SpecName: structField.Name called on its own *)

MaxIdLen == 3   \* characters of a field identifier

\* upper-case letters, as UTF-8: A, H, and U+00C9
UpperLetters == {<<65>>, <<72>>, <<195, 137>>}
\* the characters after the first: letters, a digit, the underscore, U+00E9
IdChars == UpperLetters \cup {<<97>>, <<48>>, <<95>>, <<195, 169>>}

RECURSIVE IdTails(_)
\* the strings of at most n characters of IdChars
IdTails(n) ==
  IF n = 0 THEN {<<>>}
  ELSE LET shorter == IdTails(n - 1) IN
       shorter \cup {c \o s : c \in IdChars, s \in shorter}

\* the identifiers of exported fields, and the strings of TestBind_toSnakeCase
Identifiers ==
  {c \o s : c \in UpperLetters, s \in IdTails(MaxIdLen - 1)}
    \cup {B("ILoveYou"), B("HELLO"), B("Hi0_1-2AxxBC")}

\* the `name` tags: none (or empty), and two names
NameTags == {<<>>, B("a-v"), B("X")}

InitName ==
  /\ \E id \in Identifiers, tag \in NameTags :
       pin = [fn |-> "Name",
              f |-> [Field |-> [Name |-> id, Tag |-> [name |-> tag, fang |-> <<>>]]]]
  /\ wordBits = 64
  /\ pout = NoPin
  /\ pc = "start"
  /\ cmd = EmptyCmd
  /\ target = [shape |-> "nil", type |-> NoType]
  /\ heap = <<>>
  /\ ret = RetOk
  /\ nargs = 0
  /\ last = NoLast

\* the caller calls f.Name()
NameStep ==
  /\ pc = "start"
  /\ pin.fn = "Name"
  /\ pout' = [fn |-> pin.fn, r |-> Name(pin.f)]
  /\ pc' = "done"
  /\ UNCHANGED <<cmd, target, heap, ret, nargs, last, wordBits, pin>>

NextName == NameStep

SpecName == InitName /\ [][NextName]_vars

----------------------------------------------------------------------------
(* Properties of structField.Name *)

RECURSIVE Runes(_)
\* the characters of a string
Runes(s) ==
  IF s = <<>> THEN <<>>
  ELSE LET d == DecodeRune(s) IN <<d.r>> \o Runes(SliceFrom(s, d.w))

RECURSIVE Utf8(_)
\* the string of a sequence of characters
Utf8(rs) == IF rs = <<>> THEN <<>> ELSE EncodeRune(rs[1]) \o Utf8(Tail(rs))

RECURSIVE DashUpper(_)
\* '-' before every upper-case character, lower-cased; the others copied
DashUpper(rs) ==
  IF rs = <<>> THEN <<>>
  ELSE (IF IsUpper(rs[1]) THEN <<45, ToLower(rs[1])>> ELSE <<rs[1]>>)
         \o DashUpper(Tail(rs))

\* the name derived from an identifier, character by character
DerivedName(id) ==
  LET rs == Runes(id) IN Utf8(<<ToLower(rs[1])>> \o DashUpper(Tail(rs)))

\* C10: the option name is the `name` tag when it is not empty, and
\* otherwise the identifier with its first character lower-cased and every
\* later upper-case character replaced by '-' and its lower-case form; it
\* is never empty.
C10_NameIsTagOrDerived ==
  (pc = "done" /\ pin.fn = "Name") =>
    /\ pout.r = (IF pin.f.Field.Tag.name # <<>> THEN pin.f.Field.Tag.name
                 ELSE DerivedName(pin.f.Field.Name))
    /\ pout.r # <<>>

----------------------------------------------------------------------------
(* SpecTags: a record whose first field carries a `fang` tag; the tag is   *)
(* read by attrs, Persistent and Required, and the record is bound         *)

MaxWords == 2   \* words of a `fang` tag

\* the words of a `fang` tag: the six attributes, and text that is none
AttrWords ==
  {B("persistent"), B("persist"), B("p"), B("required"), B("require"), B("r"),
   B("pr"), B("If")}
\* what stands between two words
WordSeps == {<<44>>, <<32>>, <<44, 32>>}

RECURSIVE FangTags(_)
\* the tags of at most n words
FangTags(n) ==
  IF n = 0 THEN {<<>>}
  ELSE LET shorter == FangTags(n - 1) IN
       shorter \cup AttrWords
         \cup {w \o sep \o t : w \in AttrWords, sep \in WordSeps, t \in shorter \ {<<>>}}

\* a second field whose `name` tag is the name of the first field
Namesakes ==
  << [F(TInt, 2) EXCEPT !.Tag.name = B("a-v")],
     [F(TInt, 2) EXCEPT !.Tag.name = B("a-v"), !.Tag.fang = B("p r")] >>

\* the record of a tagged int field, and of the namesakes ix names after it
TaggedTarget(tag, ix) ==
  RecordTarget(<<[F(TInt, 1) EXCEPT !.Tag.fang = tag]>> \o Namesakes,
               <<1>> \o [i \in 1..Len(ix) |-> ix[i] + 1])

InitTags ==
  \E tag \in FangTags(MaxWords), ix \in Seqs(1..Len(Namesakes), 1) :
    /\ cmd = EmptyCmd
    /\ target = [shape |-> "ptr", type |-> TaggedTarget(tag, ix).type]
    /\ heap = HeapOf(TaggedTarget(tag, ix).type, TaggedTarget(tag, ix).init)
    /\ ret = RetOk
    /\ pc = "start"
    /\ nargs = 0
    /\ last = NoLast
    /\ wordBits = 64
    /\ pin = [fn |-> "attrs", f |-> [Field |-> TaggedTarget(tag, ix).type.fields[1]]]
    /\ pout = NoPin

\* a caller reads the attributes of the field
AttrStep ==
  /\ pin.fn = "attrs"
  /\ pout = NoPin
  /\ pout' = [fn |-> pin.fn,
              r |-> [attrs |-> attrs(pin.f),
                     Persistent |-> Persistent(pin.f),
                     Required |-> Required(pin.f)]]
  /\ UNCHANGED <<cmd, target, heap, ret, pc, nargs, last, wordBits, pin>>

NextTags ==
  \/ AttrStep
  \/ BindStep

SpecTags == InitTags /\ [][NextTags]_vars

----------------------------------------------------------------------------
(* Properties of the attributes *)

IsSep(b) == b \in {44, 32}
\* the tokens of a tag, as a set: the maximal runs of bytes that are neither
\* a comma nor a space
TokensOf(s) ==
  {SubSeq(s, x[1], x[2]) : x \in
     {y \in (1..Len(s)) \X (1..Len(s)) :
        /\ y[1] <= y[2]
        /\ \A k \in y[1]..y[2] : ~IsSep(s[k])
        /\ (y[1] = 1 \/ IsSep(s[y[1] - 1]))
        /\ (y[2] = Len(s) \/ IsSep(s[y[2] + 1]))}}
PersistentWords == {B("persistent"), B("persist"), B("p")}
RequiredWords == {B("required"), B("require"), B("r")}

\* C11: Persistent is true iff a token of the tag, split at commas and
\* spaces, is persistent, persist or p; Required is true iff a token is
\* required, require or r; both are functions of the set of tokens, and no
\* tag makes Bind of the field fail.
C11_AttributesFromTokens ==
  /\ pout.fn = "attrs" =>
       LET toks == TokensOf(pin.f.Field.Tag.fang) IN
       /\ pout.r.Persistent = (toks \cap PersistentWords # {})
       /\ pout.r.Required = (toks \cap RequiredWords # {})
  /\ (pin.fn = "attrs" /\ AfterBind /\ Len(target.type.fields) = 1) => ret.out = "ok"

\* free text, a space and p: persistent, not required, and Bind succeeded
C11_Witness ==
  /\ pout.fn = "attrs"
  /\ pin.f.Field.Tag.fang = B("If p")
  /\ pout.r.Persistent
  /\ ~pout.r.Required
  /\ AfterBind
  /\ Len(target.type.fields) = 1
  /\ ret.out = "ok"

\* the flags of a set that were registered for field i of the record
FlagsOf(set, i) ==
  {k \in 1..Len(cmd[set]) : cmd[set][k].loc = [a |-> 1, p |-> <<i>>]}

\* C12: once Bind has returned, the option of a field of the record is in
\* the persistent flag set iff the field is Persistent and otherwise in the
\* local one; it is marked required, in the set that holds it, iff the field
\* is Required; the mark finds the option, so that Bind returns no error;
\* and after a successful Bind every field has its option.
C12_SetAndRequiredMark ==
  (pin.fn = "attrs" /\ AfterBind) =>
    \A i \in 1..Len(target.type.fields) :
      LET f == FieldAt(i)
          own == IF Persistent(f) THEN "persistent" ELSE "local"
          other == IF Persistent(f) THEN "local" ELSE "persistent"
      IN /\ FlagsOf(other, i) = {}
         /\ Cardinality(FlagsOf(own, i)) <= 1
         /\ \A k \in FlagsOf(own, i) :
              /\ cmd[own][k].Name = Name(f)
              /\ cmd[own][k].required = Required(f)
         /\ ret.out = "ok" => FlagsOf(own, i) # {}
         /\ ret.out # "error"

\* a persistent required option beside a local option of the same name that
\* is not marked
C12_Witness ==
  /\ pin.fn = "attrs"
  /\ AfterBind
  /\ ret.out = "ok"
  /\ Len(cmd.persistent) = 1
  /\ Len(cmd.local) = 1
  /\ cmd.persistent[1].required
  /\ ~cmd.local[1].required
  /\ cmd.persistent[1].Name = cmd.local[1].Name

----------------------------------------------------------------------------
(* SpecNested: records that hold records *)

\* a field of a nested record, under its own identifier
Fld(name, t) == [Name |-> B(name), Type |-> t, Exported |-> TRUE, Tag |-> NoTag]

\* struct{ Number int; Label string }, as in TestBind_NestedStruct
InnerType == StructOf(<<Fld("Number", TInt), Fld("Label", TString)>>)
\* struct{ In struct{ Deep int }; After *int }
DeepType ==
  StructOf(<<Fld("In", StructOf(<<Fld("Deep", TInt)>>)), Fld("After", PtrTo(TInt))>>)
\* struct{ Ch chan int; Tail *int }
BadType == StructOf(<<Fld("Ch", Base("chan int")), Fld("Tail", PtrTo(TInt))>>)
\* struct{ Near *struct{ Ch chan int; Tail *int }; Far *string }
FarBadType == StructOf(<<Fld("Near", PtrTo(BadType)), Fld("Far", PtrTo(TString))>>)

\* the fields the records of SpecNested are made of
NestedPool ==
  << F(TInt, 1),
     F(InnerType, <<1, 2>>),
     F(PtrTo(InnerType), NilPtr),
     F(DeepType, <<<<1>>, NilPtr>>),
     F(BadType, <<0, NilPtr>>),
     F(FarBadType, <<NilPtr, NilPtr>>),
     F(PtrTo(TInt), NilPtr),
     F(StructOf(<<>>), <<>>),
     [F(InnerType, <<1, 2>>) EXCEPT !.Exported = FALSE],
     F(_IPNetType, 1) >>

InitNested ==
  \E ix \in Seqs(1..Len(NestedPool), MaxFields) :
    InitWith(EmptyCmd, RecordTarget(NestedPool, ix))

NextNested ==
  \/ BindStep
  \/ \E name \in FlagNames(cmd), x \in ParseVals : ParseArg(name, x)

SpecNested == InitNested /\ [][NextNested]_vars

----------------------------------------------------------------------------
(* Properties of the walk *)

\* the type of a field with one level of pointer taken off
Unwrapped(t) == IF Kind(t) = "Ptr" THEN t.elem ELSE t
\* the scalar types that are records to Go and single options to Bind
ScalarRecords == {_IPNetType}
\* a field that is a record whose fields are walked
IsRecord(t) == Kind(Unwrapped(t)) = "Struct" /\ Unwrapped(t) \notin ScalarRecords

RECURSIVE WalkOrder(_, _, _)
\* the settable fields of record type t from field i on, depth first in
\* declaration order: [path, sf], path the field indices from the root
WalkOrder(t, prefix, i) ==
  IF i > Len(t.fields) THEN <<>>
  ELSE LET sf == t.fields[i]
           here == Append(prefix, i)
       IN (IF ~sf.Exported THEN <<>>
           ELSE <<[path |-> here, sf |-> sf]>>
                  \o (IF IsRecord(sf.Type) THEN WalkOrder(Unwrapped(sf.Type), here, 1)
                      ELSE <<>>))
          \o WalkOrder(t, prefix, i + 1)

\* the walk of the record handed to Bind
Walk == WalkOrder(target.type, <<>>, 1)
IsLeaf(n) == ~IsRecord(n.sf.Type)
\* the option names of the leaves among the first k fields of the walk
RECURSIVE LeafNames(_, _)
LeafNames(w, k) ==
  IF k = 0 THEN <<>>
  ELSE LeafNames(w, k - 1)
         \o (IF IsLeaf(w[k]) THEN <<Name([Field |-> w[k].sf])>> ELSE <<>>)

RECURSIVE Resolve(_, _, _, _)
\* where heap h stores the field at `path` below the record of type t at
\* loc: [ok, loc]; not ok when a pointer on the way is nil
Resolve(h, t, loc, path) ==
  LET sf == t.fields[path[1]]
      here == [loc EXCEPT !.p = Append(@, path[1])]
  IN IF Len(path) = 1 THEN [ok |-> TRUE, loc |-> here]
     ELSE IF Kind(sf.Type) = "Ptr"
       THEN (IF Read(h, here) = 0 THEN [ok |-> FALSE]
             ELSE Resolve(h, sf.Type.elem, [a |-> Read(h, here), p |-> <<>>], Tail(path)))
     ELSE Resolve(h, sf.Type, here, Tail(path))
Root == [a |-> 1, p |-> <<>>]

\* a leaf type Bind has no strategy for, among the types of SpecNested
Unbindable(t) == Kind(t) \in {"Chan", "Func", "Interface", "Complex128", "Ptr"}

\* the first field of the walk w that is an unbindable leaf (0: none)
FirstUnbindable(w) ==
  LET bad == {k \in 1..Len(w) : IsLeaf(w[k]) /\ Unbindable(Unwrapped(w[k].sf.Type))}
  IN IF bad = {} THEN 0 ELSE CHOOSE k \in bad : \A j \in bad : k <= j

\* the field n of the walk was a nil pointer, or lay below one, before Bind
WasNil(n) ==
  LET r == Resolve(last.pre, target.type, Root, n.path) IN
  ~r.ok \/ Read(last.pre, r.loc) = 0

\* C13: when Bind returns an error, it is the error of the first field of
\* the walk that cannot be bound; the options of the leaves before it, and
\* no others, are registered; every field after it holds what it held
\* before Bind, and nothing was allocated for it.
C13_FailFast ==
  (AfterBind /\ ret.out = "error" /\ ~cmd.nil /\ target.shape = "ptr"
     /\ Kind(target.type) = "Struct") =>
    LET w == Walk
        k == FirstUnbindable(w)
    IN /\ k > 0
       /\ ret.err.bind
       /\ ret.err.Type = Unwrapped(w[k].sf.Type)
       /\ [i \in 1..Len(AllFlags) |-> AllFlags[i].Name] = LeafNames(w, k - 1)
       /\ \A j \in (k + 1)..Len(w) :
            LET r == Resolve(last.pre, target.type, Root, w[j].path) IN
            r.ok => Read(heap, r.loc) = Read(last.pre, r.loc)
       /\ Len(heap) = Len(last.pre)
            + Cardinality({j \in 1..k : Kind(w[j].sf.Type) = "Ptr" /\ WasNil(w[j])})

\* Bind failed in a nested record behind a pointer it allocated, after it
\* registered an option, and a nil pointer field of the enclosing record
\* after the nested record is still nil
C13_Witness ==
  /\ AfterBind
  /\ ret.out = "error"
  /\ Len(target.type.fields) = 2
  /\ target.type.fields[2].Type = FarBadType
  /\ Len(AllFlags) = 1
  /\ heap[1][2][1] # 0
  /\ heap[1][2][2] = 0

\* the field of the walk w whose option is called name
LeafNamed(w, name) ==
  CHOOSE k \in 1..Len(w) : IsLeaf(w[k]) /\ Name([Field |-> w[k].sf]) = name
\* where heap h stores the value of the field n of the walk: the field
\* itself, or its pointee
ValueLoc(h, n) ==
  LET r == Resolve(h, target.type, Root, n.path) IN
  IF Kind(n.sf.Type) = "Ptr" THEN [a |-> Read(h, r.loc), p |-> <<>>] ELSE r.loc

\* C17: after a successful Bind the registered options are, in walk order,
\* the options of the settable leaf fields at every depth, each under the
\* name of its own identifier and tag; a record field has no option; and a
\* parsed argument of an option is stored in its leaf, at whatever depth.
C17_NestedFlatNamespace ==
  (target.shape = "ptr" /\ Kind(target.type) = "Struct" /\ last.op \in {"bind", "parse"}) =>
    LET w == Walk
        names == [i \in 1..Len(AllFlags) |-> AllFlags[i].Name]
        leaves == LeafNames(w, Len(w))
    IN /\ (AfterBind /\ ret.out = "ok") => names = leaves
       /\ (last.op = "parse" /\ names = leaves) =>
            LET at == ValueLoc(heap, w[LeafNamed(w, last.name)]) IN
            /\ LastFlag.loc = at
            /\ Read(heap, at) = last.tok[1]

\* --number 2 set the field Number of a nested record, beside a leaf of the
\* enclosing record: three options in all
C17_Witness ==
  /\ pc = "bound"
  /\ ret.out = "ok"
  /\ Len(target.type.fields) = 2
  /\ target.type.fields[1].Type = InnerType
  /\ target.type.fields[2].Type = TInt
  /\ Len(AllFlags) = 3
  /\ last.op = "parse"
  /\ last.name = B("number")
  /\ heap[1][1][1] = 2
  /\ last.pre[1][1][1] = 1

----------------------------------------------------------------------------
(* Properties of the registration step *)

\* a pointer to a record was handed to Bind with a command
RecordBound ==
  AfterBind /\ ~cmd.nil /\ target.shape = "ptr" /\ Kind(target.type) = "Struct"

\* C14: a failure raised while a field is registered reaches the caller of
\* Bind as a returned BindError with the message 'internal error' and the
\* failure as its cause: Bind of a record does not panic.
C14_InternalErrorsWrapped ==
  RecordBound =>
    /\ ret.out # "panic"
    /\ (ret.out = "error" /\ ret.err.Cause # NoErr) =>
         (ret.err.bind /\ ret.err.Message = "internal error")

----------------------------------------------------------------------------
(* SpecKinds: a record of one field, of every type Bind tells apart *)

\* the element types that pflag has a slice flag for, and those it has none for
SliceElems ==
  << Base("bool"), TInt, Base("int8"), Base("int16"), Base("int32"), Base("int64"),
     Base("uint"), Base("uint8"), Base("uint16"), Base("uint32"), Base("uint64"),
     Base("float32"), Base("float64"), TString, _IPType, _DurationType,
     Base("chan int"), Base("complex128") >>

\* the types with an adapter of their own
ExactTypes ==
  <<_IPType, _IPNetType, _IPMaskType, _DurationType, _CountType, _BytesHexType>>

\* the types no strategy binds
OddTypes ==
  << Base("chan int"), Base("func()"), Base("interface {}"), Base("complex128"),
     Base("uintptr"), Base("unsafe.Pointer"), PtrTo(PtrTo(TInt)),
     MapOf(TString, Base("chan int")), MapOf(Base("chan int"), TInt),
     MapOf(TString, StructOf(<<>>)), MapOf(TString, SliceOf(TInt)),
     MapOf(TString, Base("func()")), MapOf(TString, TInt),
     ArrayOf(TInt), ArrayOf(Base("chan int")) >>

\* the types of the field of SpecKinds, and a pointer to each
KindTypes ==
  [i \in 1..Len(SliceElems) |-> SliceOf(SliceElems[i])] \o ExactTypes \o OddTypes
    \o <<TInt, TString, Base("bool"), Base("float64"), Base("uint16")>>
\* the zero value of a type, as a caller writes it
Unset(t) == IF t.con = "ptr" THEN NilPtr ELSE Zero(t)
KindPool ==
  [i \in 1..Len(KindTypes) |-> F(KindTypes[i], Unset(KindTypes[i]))]
    \o [i \in 1..Len(KindTypes) |-> F(PtrTo(KindTypes[i]), NilPtr)]

InitKinds == \E i \in 1..Len(KindPool) : InitWith(EmptyCmd, RecordTarget(KindPool, <<i>>))

NextKinds ==
  \/ BindStep
  \/ \E name \in FlagNames(cmd), x \in ParseVals : ParseArg(name, x)

SpecKinds == InitKinds /\ [][NextKinds]_vars

----------------------------------------------------------------------------
(* Properties of the dispatch *)

\* the element types a repeated field may have
RepeatableElem(t) ==
  t \in {_IPType, _DurationType}
    \/ (t.con = "base" /\ t.name = BuiltinOfKind(Kind(t)) /\ Kind(t) \in PrimitiveKinds)
\* a slice or an array that is none of the types with an adapter of their own
IsRepeated(t) == t.con \in {"slice", "array"}

\* a type that matches no binding strategy
NoStrategy(t) ==
  \/ Kind(t) \in {"Chan", "Func", "Interface", "Complex128", "Ptr", "Uintptr", "UnsafePointer"}
  \/ (IsRepeated(t) /\ ~RepeatableElem(t.elem))
  \/ (t.con = "map" /\ (Kind(t.key) \notin PrimitiveKinds \/ Kind(t.elem) \notin PrimitiveKinds))
\* the types an error about a field of type t may name
Offending(t) ==
  IF t.con = "map"
    THEN (IF Kind(t.key) \notin PrimitiveKinds THEN {t.key} ELSE {t.elem})
  ELSE IF IsRepeated(t) THEN {t, t.elem}
  ELSE {t}

\* the type of the only field of the record, one level of pointer taken off
OnlyField == Unwrapped(target.type.fields[1].Type)
OneFieldBound == RecordBound /\ Len(target.type.fields) = 1

\* C15: a field whose type matches no binding strategy makes Bind return a
\* BindError whose Type is the offending type (the element type, for a map
\* whose element type is not supported), and no option is registered.
C15_UnsupportedTypeNamed ==
  (OneFieldBound /\ NoStrategy(OnlyField)) =>
    /\ ret.out = "error"
    /\ ret.err.bind
    /\ ret.err.Type \in Offending(OnlyField)
    /\ NoOption

\* C16: a slice or array field whose element type is boolean, an integer or
\* unsigned integer of any width, a float, string, IP address or duration is
\* bound as one repeated option, and Bind returns no error.
C16_RepeatedElementTypes ==
  (OneFieldBound /\ IsRepeated(target.type.fields[1].Type)
     /\ RepeatableElem(target.type.fields[1].Type.elem)) =>
    /\ ret.out = "ok"
    /\ Len(AllFlags) = 1
    /\ AllFlags[1].strat = "slice"

\* the adapter of a type that has one of its own
AdapterOf(t) ==
  CASE t = _CountType -> "count"
    [] t = _BytesHexType -> "byteshex"
    [] OTHER -> "prim"

\* C20: a field of type IP address, IP network, IP mask, duration, Count or
\* BytesHex, or a pointer to one, is bound as exactly one option, through
\* the adapter of that type and with that type, and never as a slice, a
\* record or a primitive of its kind.
C20_ExactTypeFirst ==
  (OneFieldBound /\ \E i \in 1..Len(ExactTypes) : OnlyField = ExactTypes[i]) =>
    /\ ret.out = "ok"
    /\ Len(AllFlags) = 1
    /\ AllFlags[1].Type = OnlyField
    /\ AllFlags[1].strat = AdapterOf(OnlyField)
    /\ AllFlags[1].loc =
         (IF Kind(target.type.fields[1].Type) = "Ptr"
            THEN [a |-> heap[1][1], p |-> <<>>] ELSE [a |-> 1, p |-> <<1>>])

\* a nil pointer to an IP network, a struct to Go, was allocated and bound
\* as one option of that type
C20_Witness ==
  /\ OneFieldBound
  /\ target.type.fields[1].Type = PtrTo(_IPNetType)
  /\ ret.out = "ok"
  /\ heap[1][1] # 0
  /\ Len(AllFlags) = 1
  /\ AllFlags[1].Type = _IPNetType

----------------------------------------------------------------------------
(* Counters, and a record bound again to a new command: TestBind_Count *)

\* the counter fields of a record: a Count, a pointer to one, a persistent one
CountPool ==
  << F(_CountType, 0),
    F(PtrTo(_CountType), NilPtr),
    F(PtrTo(_CountType), Ref(0)),
    [F(_CountType, 0) EXCEPT !.Tag.fang = B("p")] >>

InitCount ==
  \E ix \in Seqs(1..Len(CountPool), MaxFields) : InitWith(EmptyCmd, RecordTarget(CountPool, ix))

\* the caller makes a new command and binds the record, as it is now, to it
RebindStep ==
  /\ pc = "bound"
  /\ LET r == Bind([heap |-> heap, cmd |-> EmptyCmd, ret |-> RetOk], target) IN
     /\ heap' = r.heap
     /\ cmd' = r.cmd
     /\ ret' = r.ret
     /\ pc' = IF r.ret.out = "panic" THEN "crashed" ELSE "bound"
     /\ last' = [op |-> "bind", name |-> <<>>, tok |-> <<>>, pre |-> heap]
  /\ nargs' = 0
  /\ UNCHANGED <<target, wordBits, pin, pout>>

NextCount ==
  \/ BindStep
  \/ \E name \in FlagNames(cmd) : ParseArg(name, 1)
  \/ RebindStep

SpecCount == InitCount /\ [][NextCount]_vars

RECURSIVE SumCounts(_, _, _)
\* the sum of what the options fs[i..] hold in heap h
SumCounts(h, fs, i) ==
  IF i > Len(fs) THEN 0 ELSE Read(h, fs[i].loc) + SumCounts(h, fs, i + 1)

----------------------------------------------------------------------------
(* Two records bound through one Binder: ExampleBinder_Bind *)

\* the field of the record bound first
FirstPool ==
  << F(TString, 1),
    F(PtrTo(TInt), NilPtr),
    F(SliceOf(TInt), <<>>) >>
\* the fields of the record bound second; the untagged one has the name of
\* the field of the first record
SecondPool ==
  << [F(PtrTo(TString), NilPtr) EXCEPT !.Tag.name = B("file")],
    [F(TInt, 0) EXCEPT !.Tag.name = B("n"), !.Tag.fang = B("p")],
    F(TString, 2) >>

\* heap[1] is the first record; the second record is at target.next.a
InitTwo ==
  \E i \in 1..Len(FirstPool), ix \in Seqs(1..Len(SecondPool), MaxFields) :
    LET t1 == RecordTarget(FirstPool, <<i>>)
        t2 == RecordTarget(SecondPool, ix)
        s2 == Store(HeapOf(t1.type, t1.init), PtrTo(t2.type), Ref(t2.init))
    IN /\ cmd = EmptyCmd
       /\ target = [shape |-> "ptr", type |-> t1.type,
                    next |-> [type |-> t2.type, a |-> s2.v, bound |-> FALSE]]
       /\ heap = s2.h
       /\ ret = RetOk
       /\ pc = "start"
       /\ nargs = 0
       /\ last = NoLast
       /\ wordBits = 64
       /\ pin = NoPin
       /\ pout = NoPin

\* the caller calls b.Bind(&second) on the Binder of the first call; the
\* argument is a non-nil pointer to a record, which Binder.Bind hands to
\* bindToStruct
BindNext ==
  /\ pc = "bound"
  /\ ret.out = "ok"
  /\ nargs = 0
  /\ ~target.next.bound
  /\ LET r == bindToStruct([heap |-> heap, cmd |-> cmd, ret |-> RetOk], target.next.type,
                           [a |-> target.next.a, p |-> <<>>])
     IN /\ heap' = r.heap
        /\ cmd' = r.cmd
        /\ ret' = r.ret
        /\ pc' = IF r.ret.out = "panic" THEN "crashed" ELSE "bound"
        /\ last' = [op |-> "bind", name |-> <<>>, tok |-> <<>>, pre |-> heap]
  /\ target' = [target EXCEPT !.next.bound = TRUE]
  /\ UNCHANGED <<nargs, wordBits, pin, pout>>

NextTwo ==
  \/ BindStep
  \/ BindNext
  \/ \E name \in FlagNames(cmd), x \in ParseVals : ParseArg(name, x)

SpecTwo == InitTwo /\ [][NextTwo]_vars

\* the fields of the record of type t at address a of heap h, each with its
\* option name and the place of its value: the field, or its pointee
Declared(h, a, t) ==
  [i \in 1..Len(t.fields) |->
    [Name |-> Name([Field |-> t.fields[i]]),
     Type |-> Unwrapped(t.fields[i].Type),
     loc |-> IF Kind(t.fields[i].Type) = "Ptr"
               THEN [a |-> h[a][i], p |-> <<>>] ELSE [a |-> a, p |-> <<i>>]]]
\* the fields of both records, those of the first record first
BothDeclared(h) == Declared(h, 1, target.type) \o Declared(h, target.next.a, target.next.type)
BothBound == pc = "bound" /\ ret.out = "ok" /\ target.next.bound

\* C19: after Bind(r1) and Bind(r2) on one Binder have both succeeded, the
\* command holds the options of both records, each bound to the field that
\* declared it; and a parsed argument is stored in the field of the record
\* that declared its option, and nothing else of either record changes.
C19_BindsCompose ==
  BothBound =>
    LET ds == BothDeclared(heap) IN
    /\ Len(AllFlags) = Len(ds)
    /\ \A i \in 1..Len(ds) :
         \E k \in 1..Len(AllFlags) :
           AllFlags[k].Name = ds[i].Name /\ AllFlags[k].loc = ds[i].loc
    /\ last.op = "parse" =>
         \E i \in 1..Len(ds) :
           /\ ds[i].Name = last.name
           /\ IF ds[i].Type.con = "slice"
                THEN \/ Read(heap, ds[i].loc) = <<last.tok[1]>>
                     \/ Read(heap, ds[i].loc) = Append(Read(last.pre, ds[i].loc), last.tok[1])
                ELSE Read(heap, ds[i].loc) = last.tok[1]
           /\ heap = Write(last.pre, ds[i].loc, Read(heap, ds[i].loc))

\* both records are bound, and an argument of an option of the second
\* record has been stored in the pointee of its field while the first
\* record holds what it held
C19_Witness ==
  /\ BothBound
  /\ last.op = "parse"
  /\ last.name = B("file")
  /\ Len(target.type.fields) = 1
  /\ heap[1] = last.pre[1]
  /\ heap[heap[target.next.a][1]] = last.tok[1]
  /\ Len(AllFlags) > 1

----------------------------------------------------------------------------
(* The walk one field at a time, over record types that name themselves *)

\* the depth of nested calls of bindToStruct the goroutine's stack has room
\* for; the Go runtime ends the process with "fatal error: stack overflow"
\* when a call needs more
MaxDepth == 3

\* a use of a declared type by its name: type Node struct{ Next *Node }
Named(n) == [con |-> "named", name |-> n]
\* the declarations of the record types
TypeNamed(n) ==
  CASE n = "Node" -> StructOf(<<Fld("Next", PtrTo(Named("Node")))>>)
    [] n = "Item" -> StructOf(<<Fld("Val", TInt), Fld("Next", PtrTo(Named("Item")))>>)
    [] n = "Ping" -> StructOf(<<Fld("Pong", PtrTo(Named("Pong")))>>)
    [] n = "Pong" -> StructOf(<<Fld("Ping", PtrTo(Named("Ping")))>>)
    [] n = "Guard" -> StructOf(<<Fld("Ch", Base("chan int")), Fld("Next", PtrTo(Named("Guard")))>>)
    [] n = "Hidden" ->
         StructOf(<<[Fld("next", PtrTo(Named("Hidden"))) EXCEPT !.Exported = FALSE],
                    Fld("Size", TInt)>>)
    [] n = "Leaf" -> StructOf(<<Fld("Number", TInt)>>)
\* t.Field(i) of reflect: the field with the type its name declares
FieldOf(t, i) ==
  LET sf == t.fields[i] IN
  IF sf.Type.con = "named" THEN [sf EXCEPT !.Type = TypeNamed(sf.Type.name)]
  ELSE IF sf.Type.con = "ptr" /\ sf.Type.elem.con = "named"
    THEN [sf EXCEPT !.Type = PtrTo(TypeNamed(sf.Type.elem.name))]
  ELSE sf

\* the fields of the records of the walk, each nil or zero when Bind is called
WalkPool ==
  << F(TInt, 0),
    F(PtrTo(Named("Node")), NilPtr),
    F(TypeNamed("Node"), <<NilPtr>>),
    F(PtrTo(Named("Item")), NilPtr),
    F(PtrTo(Named("Ping")), NilPtr),
    F(PtrTo(Named("Guard")), NilPtr),
    F(PtrTo(Named("Hidden")), NilPtr),
    F(PtrTo(Named("Leaf")), NilPtr),
    F(InnerType, <<0, 0>>) >>

InitWalk ==
  \/ \E ix \in Seqs(1..Len(WalkPool), MaxFields) : InitWith(EmptyCmd, RecordTarget(WalkPool, ix))
  \/ \E c \in {NilCmd, EmptyCmd}, i \in 1..Len(OddTargets) : InitWith(c, OddTargets[i])

\* the pending calls of visitStructField, the innermost last: the struct of
\* type t at loc, about to look at field i
Frame(t, loc, i) == [t |-> t, loc |-> loc, i |-> i]
Walking(frames) == [fn |-> "bindToStruct", frames |-> frames]

\* the caller calls Bind(cmd, v): New and Binder.Bind up to the call of
\* bindToStruct
WalkStart ==
  /\ pc = "start"
  /\ last' = [op |-> "bind", name |-> <<>>, tok |-> <<>>, pre |-> heap]
  /\ IF cmd.nil \/ target.shape # "ptr" \/ Kind(target.type) # "Struct"
       THEN LET r == Bind([heap |-> heap, cmd |-> cmd, ret |-> RetOk], target) IN
            /\ ret' = r.ret
            /\ pc' = IF r.ret.out = "panic" THEN "crashed" ELSE "bound"
            /\ pin' = pin
       ELSE /\ ret' = ret
            /\ pc' = "walking"
            /\ pin' = Walking(<<Frame(target.type, [a |-> 1, p |-> <<>>], 1)>>)
  /\ UNCHANGED <<cmd, target, heap, nargs, wordBits, pout>>

\* one turn of the loop of the innermost visitStructField, with heap h and
\* command c: it returns nil after the last field, skips a field that
\* cannot be set, and visits any other; the visit of a record field calls
\* bindToStruct, every other visit binds the field and ends the walk when
\* it fails.  The result is the set of the one outcome of the turn.
WalkTurn(h, c, fs) ==
  LET d == Len(fs)
      top == fs[d]
      below == SubSeq(fs, 1, d - 1)
      next == Append(below, [top EXCEPT !.i = @ + 1])
      on == [heap |-> h, cmd |-> c, ret |-> RetOk, pc |-> "walking", frames |-> next]
      \* the field is a record: bindToStruct, if the stack has room for it
      Enter(nf) ==
        IF d < MaxDepth
          THEN [on EXCEPT !.heap = nf.heap,
                          !.frames = Append(next, Frame(nf.field.Type, nf.field.Value, 1))]
          ELSE [on EXCEPT !.heap = nf.heap, !.pc = "fatal", !.frames = fs]
      \* the visit of any other field came to r
      Visited(r) ==
        IF r.ret.out = "ok" THEN [on EXCEPT !.heap = r.heap, !.cmd = r.cmd]
        ELSE [heap |-> r.heap, cmd |-> r.cmd, ret |-> r.ret, frames |-> <<>>,
              pc |-> IF r.ret.out = "panic" THEN "crashed" ELSE "bound"]
      Field(nf) ==
        IF nf.field.Type.con = "struct" THEN {Enter(nf)}
        ELSE {Visited(r) : r \in {visit([heap |-> nf.heap, cmd |-> c, ret |-> RetOk], nf.field)}}
  IN
  IF top.i > Len(top.t.fields) THEN
    {IF d = 1 THEN [on EXCEPT !.pc = "bound", !.frames = <<>>] ELSE [on EXCEPT !.frames = below]}
  ELSE IF ~CanSet(top.t.fields[top.i]) THEN {on}
  ELSE UNION {Field(nf) : nf \in {newStructField(h, FieldOf(top.t, top.i),
                                                 [top.loc EXCEPT !.p = Append(@, top.i)])}}

\* the walk takes its next turn
WalkStep ==
  /\ pc = "walking"
  /\ \E r \in WalkTurn(heap, cmd, pin.frames) :
     /\ heap' = r.heap
     /\ cmd' = r.cmd
     /\ pc' = r.pc
     /\ ret' = IF r.pc \in {"bound", "crashed"} THEN r.ret ELSE ret
     /\ pin' = IF r.frames = <<>> THEN NoPin ELSE Walking(r.frames)
  /\ UNCHANGED <<target, nargs, last, wordBits, pout>>

NextWalk == WalkStart \/ WalkStep

\* a call that can take a step takes it: the goroutine of the caller runs
SpecWalk == InitWalk /\ [][NextWalk]_vars /\ WF_vars(NextWalk)

\* C21: Bind terminates for every record type and value: every call of
\* Bind comes back to its caller, with success, an error or a panic, also
\* for a record type that refers to its own type through a pointer field.
C21_BindTerminates == <>(pc \in {"bound", "crashed"})

====
